---- MODULE Spec2Model ----
(***************************************************************************)
(* Balanced ternary numbers (balanced_ternary_rs): Trit, SumResult and     *)
(* Number<N>.  A Number is a sequence of N trits, index 1 the most         *)
(* significant (the Rust array index 0).  Operations are called from the   *)
(* idle state with operands drawn from all width-N numbers; division runs  *)
(* its repeated-subtraction loop one iteration per step.                   *)
(***************************************************************************)
EXTENDS Integers, Sequences, FiniteSets, TLC

\* Width of a Number (the const generic N; the tests use 8).
N == 4

\* How many symbols longer than N an input string may be.
StrExtra == 2

\* How far beyond N a shift amount may go.
ShiftExtra == 1

\* How many inc() / dec() calls are made on one receiver.
MaxCalls == 3

MaxStrLen == N + StrExtra
MaxShift == N + ShiftExtra

VARIABLES
    op,                     \* operation called: "none" before any call
    pc,                     \* "idle", "div_loop", "counting", "done", "shown", "panicked"
    arg_a,                  \* left operand / receiver value at the call
    arg_b,                  \* right operand / divisor
    arg_str,                \* string handed to From<&str>
    arg_k,                  \* shift amount
    out,                    \* value returned (<<>> while none is produced)
    err,                    \* "none", "InvalidDigit" or "DivisionByZero"
    receiver,               \* storage of the receiver of an in-place operator
    ordering,               \* result of a comparison: "Less", "Equal", "Greater"
    equal,                  \* result of ==
    text,                   \* characters written by Display (<<>> before)
    abs_remainder,          \* Div::div locals
    abs_divisor,
    quotient,
    numerator_is_negative,
    divisor_is_negative,
    iters,                  \* iterations of the division loop run so far
    n_inc,                  \* inc() calls made on the receiver
    n_dec,                  \* dec() calls made on the receiver
    i32_a,                  \* i32::from(arg_a)
    i32_b,                  \* i32::from(arg_b)
    t_l,                    \* trit operands of Trit::add / add_with_carry
    t_r,
    t_c,
    sum                     \* SumResult returned by the trit adders

vars == <<op, pc, arg_a, arg_b, arg_str, arg_k, out, err, receiver, ordering,
          equal, text, abs_remainder, abs_divisor, quotient, numerator_is_negative,
          divisor_is_negative, iters, n_inc, n_dec, i32_a, i32_b, t_l, t_r, t_c, sum>>

(***************************************************************************)
(* Trit                                                                    *)
(***************************************************************************)
Trit == {"Neg", "Zero", "Pos"}

TritOrd_ZeroFirst(t) == CASE t = "Zero" -> 0 [] t = "Neg" -> 1 [] t = "Pos" -> 2

\* Position of the variant in the enum declaration; derive(Ord) compares it.
TritOrd(t) == CASE t = "Neg" -> 0 [] t = "Zero" -> 1 [] t = "Pos" -> 2

Trit_fmt_Swapped(t) == CASE t = "Neg" -> "+" [] t = "Zero" -> "0" [] t = "Pos" -> "-"

\* Display for Trit.
Trit_fmt(t) == CASE t = "Neg" -> "-" [] t = "Zero" -> "0" [] t = "Pos" -> "+"

\* From<char> for Trit; "Panic" stands for the panic! arm.
Trit_from(encoded) ==
    CASE encoded = "-" -> "Neg"
      [] encoded = "0" -> "Zero"
      [] encoded = "+" -> "Pos"
      [] OTHER -> "Panic"

Trit_negate_Stuck(t) == CASE t = "Neg" -> "Neg" [] t = "Zero" -> "Zero" [] t = "Pos" -> "Neg"

Trit_negate(t) == CASE t = "Neg" -> "Pos" [] t = "Zero" -> "Zero" [] t = "Pos" -> "Neg"

SumResult(result, carry) == [result |-> result, carry |-> carry]

Trit_add_SameNoCarry(l, r) ==
    CASE r = "Zero" -> SumResult(l, "Zero")
      [] r # "Zero" /\ l = "Zero" -> SumResult(r, "Zero")
      [] r # "Zero" /\ l # "Zero" /\ l = r -> SumResult(Trit_negate(l), "Zero")
      [] OTHER -> SumResult("Zero", "Zero")

Trit_add_CancelCarry(l, r) ==
    CASE r = "Zero" -> SumResult(l, "Zero")
      [] r # "Zero" /\ l = "Zero" -> SumResult(r, "Zero")
      [] r # "Zero" /\ l # "Zero" /\ l = r -> SumResult(Trit_negate(l), l)
      [] OTHER -> SumResult("Zero", l)

\* Half adder; "Unreachable" stands for the unreachable!() arm.
Trit_add(l, r) ==
    CASE r = "Zero" -> SumResult(l, "Zero")
      [] r # "Zero" /\ l = "Zero" -> SumResult(r, "Zero")
      [] r # "Zero" /\ l # "Zero" /\ l = r -> SumResult(Trit_negate(l), l)
      [] r # "Zero" /\ l # "Zero" /\ l # r /\ l = Trit_negate(r) -> SumResult("Zero", "Zero")
      [] OTHER -> SumResult("Unreachable", "Unreachable")

Trit_add_with_carry_NoCarryOut(l, r, c) ==
    CASE l = "Zero" -> Trit_add(r, c)
      [] l # "Zero" /\ r = "Zero" -> Trit_add(l, c)
      [] l # "Zero" /\ r # "Zero" /\ c = "Zero" -> Trit_add(l, r)
      [] l # "Zero" /\ r # "Zero" /\ c # "Zero" /\ l = r /\ r = c -> SumResult("Zero", "Zero")
      [] OTHER -> SumResult(IF l = r THEN l ELSE c, "Zero")

\* Full adder: the match arms in their priority order.
Trit_add_with_carry(l, r, c) ==
    CASE l = "Zero" -> Trit_add(r, c)
      [] l # "Zero" /\ r = "Zero" -> Trit_add(l, c)
      [] l # "Zero" /\ r # "Zero" /\ c = "Zero" -> Trit_add(l, r)
      [] l # "Zero" /\ r # "Zero" /\ c # "Zero" /\ Trit_negate(l) = r -> SumResult(c, "Zero")
      [] l # "Zero" /\ r # "Zero" /\ c # "Zero" /\ Trit_negate(l) # r /\ Trit_negate(l) = c
            -> SumResult(r, "Zero")
      [] l # "Zero" /\ r # "Zero" /\ c # "Zero" /\ Trit_negate(l) # r /\ Trit_negate(l) # c
            /\ Trit_negate(r) = c -> SumResult(l, "Zero")
      [] OTHER -> SumResult("Zero", l)

(***************************************************************************)
(* Number<N>: construction                                                 *)
(***************************************************************************)
Numbers == [1..N -> Trit]

ZERO == [i \in 1..N |-> "Zero"]

\* The loop of from_rev_iter from position idx with the lazy source: an item
\* is produced (and a failing map closure panics) before idx == N is tested.
RECURSIVE from_rev_iter_loop(_, _, _)
from_rev_iter_loop(output, source, idx) ==
    IF idx >= Len(source) THEN [err |-> "none", num |-> output]
    ELSE IF source[idx + 1] = "Panic" THEN [err |-> "InvalidDigit", num |-> <<>>]
    ELSE IF idx = N THEN [err |-> "none", num |-> output]
    ELSE from_rev_iter_loop([output EXCEPT ![N - idx] = source[idx + 1]], source, idx + 1)

from_rev_iter(source) == from_rev_iter_loop(ZERO, source, 0)

rev_trits_Forward(encoded) == [i \in 1..Len(encoded) |-> Trit_from(encoded[i])]

\* encoded.chars().rev().map(Trit::from): item i is the mapped i-th character
\* from the right; the map is applied when the item is pulled.
rev_trits(encoded) == [i \in 1..Len(encoded) |-> Trit_from(encoded[Len(encoded) + 1 - i])]

\* From<&str> for Number<N>.
Number_from(encoded) == from_rev_iter(rev_trits(encoded))

(***************************************************************************)
(* Number<N>: conversion to i32 and display                                *)
(***************************************************************************)
RECURSIVE pow3(_)
pow3(e) == IF e = 0 THEN 1 ELSE 3 * pow3(e - 1)

RECURSIVE to_i32_from_NegAsPos(_, _)
to_i32_from_NegAsPos(number, idx) ==
    IF idx = N THEN 0
    ELSE (IF number[N - idx] = "Zero" THEN 0 ELSE pow3(idx))
         + to_i32_from_NegAsPos(number, idx + 1)

\* Sum over the trits from lowest order (idx 0) upwards.
RECURSIVE to_i32_from(_, _)
to_i32_from(number, idx) ==
    IF idx = N THEN 0
    ELSE (CASE number[N - idx] = "Neg" -> -pow3(idx)
            [] number[N - idx] = "Zero" -> 0
            [] number[N - idx] = "Pos" -> pow3(idx))
         + to_i32_from(number, idx + 1)

to_i32(number) == to_i32_from(number, 0)

DigitChar(d) == <<"0", "1", "2", "3", "4", "5", "6", "7", "8", "9">>[d + 1]

\* "{}" of an i32: decimal digits, '-' in front of a negative value.
RECURSIVE DecimalDigits(_)
DecimalDigits(v) ==
    IF v < 10 THEN <<DigitChar(v)>>
    ELSE DecimalDigits(v \div 10) \o <<DigitChar(v % 10)>>

Decimal(v) == IF v < 0 THEN <<"-">> \o DecimalDigits(-v) ELSE DecimalDigits(v)

\* Display for Number<N>: the N trit characters, then " (<i32>)".
Number_fmt(number) ==
    [i \in 1..N |-> Trit_fmt(number[i])] \o <<" ", "(">> \o Decimal(to_i32(number)) \o <<")">>

(***************************************************************************)
(* Number<N>: comparison, negation, shift                                  *)
(***************************************************************************)
\* derive(Ord) on the array: lexicographic from index 0.
RECURSIVE cmp_from(_, _, _)
cmp_from(self, other, i) ==
    IF i > N THEN "Equal"
    ELSE IF TritOrd(self[i]) < TritOrd(other[i]) THEN "Less"
    ELSE IF TritOrd(self[i]) > TritOrd(other[i]) THEN "Greater"
    ELSE cmp_from(self, other, i + 1)

cmp(self, other) == cmp_from(self, other, 1)

lt(self, other) == cmp(self, other) = "Less"

ge(self, other) == cmp(self, other) # "Less"

\* derive(PartialEq) on the array.
eq(self, other) == \A i \in 1..N : self[i] = other[i]

neg(self) == [i \in 1..N |-> Trit_negate(self[i])]

shl_NoShift(self, positions) == IF positions >= N THEN ZERO ELSE self

\* Shl<usize>: out.0[..(N-positions)].copy_from_slice(&self.0[positions..]).
shl(self, positions) ==
    IF positions >= N THEN ZERO
    ELSE [i \in 1..N |-> IF i <= N - positions THEN self[i + positions] ELSE "Zero"]

rotate_left_Right(s, mid) == [i \in 1..N |-> s[((i - 1 - mid) % N) + 1]]

\* slice::rotate_left.
rotate_left(s, mid) == [i \in 1..N |-> s[((i - 1 + mid) % N) + 1]]

\* ShlAssign<usize>: rotate, then zero the vacated least-significant trits.
shl_assign(self, positions) ==
    IF positions >= N THEN ZERO
    ELSE [i \in 1..N |-> IF i > N - positions THEN "Zero" ELSE rotate_left(self, positions)[i]]

(***************************************************************************)
(* Number<N>: arithmetic                                                   *)
(***************************************************************************)
\* The scan of Add::add: result trits from the least-significant position
\* (idx 0) upwards, the accumulator carrying the carry trit.
RECURSIVE add_scan(_, _, _, _)
add_scan(self, other, idx, carry) ==
    IF idx = N THEN <<>>
    ELSE LET sr == Trit_add_with_carry(self[N - idx], other[N - idx], carry)
         IN  <<sr.result>> \o add_scan(self, other, idx + 1, sr.carry)

add_CarryLost(self, other) ==
    [i \in 1..N |-> Trit_add_with_carry(self[i], other[i], "Zero").result]

\* Add for Number<N>.
add(self, other) == from_rev_iter(add_scan(self, other, 0, "Zero")).num

add_assign_StaleCarry(self, other) ==
    [i \in 1..N |-> Trit_add_with_carry(self[i], other[i], "Zero").result]

\* AddAssign for Number<N>: the for_each over the receiver's trits in place.
RECURSIVE add_assign_loop(_, _, _, _)
add_assign_loop(self, other, idx, carry) ==
    IF idx = N THEN self
    ELSE LET sr == Trit_add_with_carry(self[N - idx], other[N - idx], carry)
         IN  add_assign_loop([self EXCEPT ![N - idx] = sr.result], other, idx + 1, sr.carry)

add_assign(self, other) == add_assign_loop(self, other, 0, "Zero")

\* AddAssign<Trit> for Number<N>: stops as soon as the carry is Zero.
RECURSIVE add_assign_trit_loop(_, _, _)
add_assign_trit_loop(self, idx, carry) ==
    IF idx = N \/ carry = "Zero" THEN self
    ELSE LET sr == Trit_add(self[N - idx], carry)
         IN  add_assign_trit_loop([self EXCEPT ![N - idx] = sr.result], idx + 1, sr.carry)

add_assign_trit_NoCarry(self, t) == [self EXCEPT ![N] = Trit_add(self[N], t).result]

add_assign_trit(self, t) == add_assign_trit_loop(self, 0, t)

inc(self) == add_assign_trit(self, "Pos")

dec(self) == add_assign_trit(self, "Neg")

sub(self, other) == add(self, neg(other))

sub_assign(self, other) == add_assign(self, neg(other))

\* Mul::mul: zip of the left operand's trits (lowest first) with the generator
\* of left-shifted copies of the right operand, filter_map, then Sum (a fold
\* with Add from ZERO).
RECURSIVE mul_fold(_, _, _, _)
mul_fold(acc, self, idx, rhs_shifted) ==
    IF idx = N THEN acc
    ELSE LET current_trit == self[N - idx]
             next_acc == CASE current_trit = "Neg" -> add(acc, neg(rhs_shifted))
                           [] current_trit = "Zero" -> acc
                           [] current_trit = "Pos" -> add(acc, rhs_shifted)
         IN  mul_fold(next_acc, self, idx + 1, shl_assign(rhs_shifted, 1))

mul_NoShift(self, other) ==
    LET RECURSIVE f(_, _)
        f(acc, idx) ==
            IF idx = N THEN acc
            ELSE f(CASE self[N - idx] = "Neg" -> add(acc, neg(other))
                     [] self[N - idx] = "Zero" -> acc
                     [] self[N - idx] = "Pos" -> add(acc, other), idx + 1)
    IN  f(ZERO, 0)

mul(self, other) == mul_fold(ZERO, self, 0, other)

\* MulAssign: *self = *self * rhs.
mul_assign(self, other) == mul(self, other)

div_is_zero_Never(divisor) == FALSE

\* Div::div, the zero check.
div_is_zero(divisor) == eq(divisor, ZERO)

\* Div::div, the locals set up before the loop.
div_abs(v) == IF lt(v, ZERO) THEN neg(v) ELSE v

div_cond_Strict(remainder, divisor) == cmp(remainder, divisor) = "Greater"

\* Div::div, the loop condition.
div_cond(remainder, divisor) == ge(remainder, divisor)

div_sign_Numerator(num_neg, div_neg, q) == IF num_neg THEN neg(q) ELSE q

\* Div::div, the sign of the result: numerator_is_negative ^ divisor_is_negative.
div_sign(num_neg, div_neg, q) == IF num_neg # div_neg THEN neg(q) ELSE q

\* Div::div, the whole loop as a function of (remainder, divisor, quotient).
RECURSIVE div_loop(_, _, _)
div_loop(remainder, divisor, q) ==
    IF div_cond(remainder, divisor)
    THEN div_loop(sub_assign(remainder, divisor), divisor, inc(q))
    ELSE q

\* Div::div on a non-zero divisor.
div(self, divisor) ==
    div_sign(lt(self, ZERO), lt(divisor, ZERO),
             div_loop(div_abs(self), div_abs(divisor), ZERO))

(***************************************************************************)
(* Inputs                                                                  *)
(***************************************************************************)
\* '+', '0', '-' and one character outside the encoding.
Chars == {"+", "0", "-", "x"}

ValidChars == {"+", "0", "-"}

Strings == UNION {[1..n -> Chars] : n \in 0..MaxStrLen}

Shifts == 0..MaxShift

(***************************************************************************)
(* State machine                                                           *)
(***************************************************************************)
Init ==
    /\ op = "none"
    /\ pc = "idle"
    /\ arg_a = ZERO
    /\ arg_b = ZERO
    /\ arg_str = <<>>
    /\ arg_k = 0
    /\ out = <<>>
    /\ err = "none"
    /\ receiver = ZERO
    /\ ordering = "none"
    /\ equal = FALSE
    /\ text = <<>>
    /\ abs_remainder = ZERO
    /\ abs_divisor = ZERO
    /\ quotient = ZERO
    /\ numerator_is_negative = FALSE
    /\ divisor_is_negative = FALSE
    /\ iters = 0
    /\ n_inc = 0
    /\ n_dec = 0
    /\ i32_a = 0
    /\ i32_b = 0
    /\ t_l = "Zero"
    /\ t_r = "Zero"
    /\ t_c = "Zero"
    /\ sum = SumResult("Zero", "Zero")

\* What the calls on whole Numbers leave alone: the inc/dec counts, the
\* converted integers and the trit adder's operands and result.
Scratch == <<n_inc, n_dec, i32_a, i32_b, t_l, t_r, t_c, sum>>

DivLocals == <<abs_remainder, abs_divisor, quotient, numerator_is_negative,
               divisor_is_negative>>

\* Number::<N>::from(encoded)
FromStr ==
    /\ pc = "idle"
    /\ \E encoded \in Strings :
        LET r == Number_from(encoded)
        IN  /\ op' = "from"
            /\ arg_str' = encoded
            /\ out' = r.num
            /\ err' = r.err
            /\ pc' = IF r.err = "none" THEN "done" ELSE "panicked"
    /\ UNCHANGED <<arg_a, arg_b, arg_k, receiver, ordering, equal, text, DivLocals, Scratch, iters>>

\* format!("{}", number) on the Number an operation returned
Display ==
    /\ pc = "done"
    /\ out # <<>>
    /\ text' = Number_fmt(out)
    /\ pc' = "shown"
    /\ UNCHANGED <<op, arg_a, arg_b, arg_str, arg_k, out, err, receiver, ordering,
                   equal, DivLocals, Scratch, iters>>

\* a < b, a == b, ...
Compare ==
    /\ pc = "idle"
    /\ \E a \in Numbers, b \in Numbers :
        /\ op' = "cmp"
        /\ arg_a' = a
        /\ arg_b' = b
        /\ ordering' = cmp(a, b)
        /\ equal' = eq(a, b)
    /\ pc' = "done"
    /\ UNCHANGED <<arg_str, arg_k, out, err, receiver, text, DivLocals, Scratch, iters>>

\* -a
Neg ==
    /\ pc = "idle"
    /\ \E a \in Numbers :
        /\ op' = "neg"
        /\ arg_a' = a
        /\ out' = neg(a)
    /\ pc' = "done"
    /\ UNCHANGED <<arg_b, arg_str, arg_k, err, receiver, ordering, equal, text, DivLocals, Scratch, iters>>

\* a << k
Shl ==
    /\ pc = "idle"
    /\ \E a \in Numbers, positions \in Shifts :
        /\ op' = "shl"
        /\ arg_a' = a
        /\ arg_k' = positions
        /\ out' = shl(a, positions)
    /\ pc' = "done"
    /\ UNCHANGED <<arg_b, arg_str, err, receiver, ordering, equal, text, DivLocals, Scratch, iters>>

\* a + b
Add ==
    /\ pc = "idle"
    /\ \E a \in Numbers, b \in Numbers :
        /\ op' = "add"
        /\ arg_a' = a
        /\ arg_b' = b
        /\ out' = add(a, b)
    /\ pc' = "done"
    /\ UNCHANGED <<arg_str, arg_k, err, receiver, ordering, equal, text, DivLocals, Scratch, iters>>

\* a * b
Mul ==
    /\ pc = "idle"
    /\ \E a \in Numbers, b \in Numbers :
        /\ op' = "mul"
        /\ arg_a' = a
        /\ arg_b' = b
        /\ out' = mul(a, b)
    /\ pc' = "done"
    /\ UNCHANGED <<arg_str, arg_k, err, receiver, ordering, equal, text, DivLocals, Scratch, iters>>

\* Div::div up to the loop: the zero check panics, otherwise the locals are set.
DivEnter(a, b) ==
    /\ arg_a' = a
    /\ arg_b' = b
    /\ IF div_is_zero(b)
       THEN /\ err' = "DivisionByZero"
            /\ pc' = "panicked"
            /\ UNCHANGED <<DivLocals, iters>>
       ELSE /\ numerator_is_negative' = lt(a, ZERO)
            /\ abs_remainder' = div_abs(a)
            /\ divisor_is_negative' = lt(b, ZERO)
            /\ abs_divisor' = div_abs(b)
            /\ quotient' = ZERO
            /\ iters' = 0
            /\ err' = "none"
            /\ pc' = "div_loop"

\* a / b
DivCall ==
    /\ pc = "idle"
    /\ op' = "div"
    /\ \E a \in Numbers, b \in Numbers : DivEnter(a, b)
    /\ UNCHANGED <<arg_str, arg_k, out, receiver, ordering, equal, text, Scratch>>

\* a /= b with the receiver holding a: *self = *self / divisor
DivAssignCall ==
    /\ pc = "idle"
    /\ op' = "div_assign"
    /\ \E a \in Numbers, b \in Numbers :
        /\ receiver' = a
        /\ DivEnter(a, b)
    /\ UNCHANGED <<arg_str, arg_k, out, ordering, equal, text, Scratch>>

\* one iteration of while abs_remainder >= abs_divisor
DivLoopStep ==
    /\ pc = "div_loop"
    /\ div_cond(abs_remainder, abs_divisor)
    /\ abs_remainder' = sub_assign(abs_remainder, abs_divisor)
    /\ quotient' = inc(quotient)
    /\ iters' = IF iters < pow3(N) THEN iters + 1 ELSE iters
    /\ UNCHANGED <<op, pc, arg_a, arg_b, arg_str, arg_k, out, err, receiver, ordering,
                   equal, text, abs_divisor, numerator_is_negative, divisor_is_negative, Scratch>>

\* the loop is left: the signed quotient is returned (and stored by /=)
DivReturn ==
    /\ pc = "div_loop"
    /\ ~div_cond(abs_remainder, abs_divisor)
    /\ out' = div_sign(numerator_is_negative, divisor_is_negative, quotient)
    /\ receiver' = IF op = "div_assign" THEN out' ELSE receiver
    /\ pc' = "done"
    /\ UNCHANGED <<op, arg_a, arg_b, arg_str, arg_k, err, ordering, equal, text, DivLocals, Scratch, iters>>

\* a - b
Sub ==
    /\ pc = "idle"
    /\ \E a \in Numbers, b \in Numbers :
        /\ op' = "sub"
        /\ arg_a' = a
        /\ arg_b' = b
        /\ out' = sub(a, b)
    /\ pc' = "done"
    /\ UNCHANGED <<arg_str, arg_k, err, receiver, ordering, equal, text, DivLocals, Scratch, iters>>

\* a += b, a -= b, a *= b with the receiver holding a
InPlace(name, a, b, result) ==
    /\ op' = name
    /\ arg_a' = a
    /\ arg_b' = b
    /\ receiver' = result
    /\ pc' = "done"
    /\ UNCHANGED <<arg_str, arg_k, out, err, ordering, equal, text, DivLocals, Scratch, iters>>

AddAssign ==
    /\ pc = "idle"
    /\ \E a \in Numbers, b \in Numbers : InPlace("add_assign", a, b, add_assign(a, b))

SubAssign ==
    /\ pc = "idle"
    /\ \E a \in Numbers, b \in Numbers : InPlace("sub_assign", a, b, sub_assign(a, b))

MulAssign ==
    /\ pc = "idle"
    /\ \E a \in Numbers, b \in Numbers : InPlace("mul_assign", a, b, mul_assign(a, b))

\* a <<= k with the receiver holding a
ShlAssign ==
    /\ pc = "idle"
    /\ \E a \in Numbers, positions \in Shifts :
        /\ op' = "shl_assign"
        /\ arg_a' = a
        /\ arg_k' = positions
        /\ receiver' = shl_assign(a, positions)
    /\ pc' = "done"
    /\ UNCHANGED <<arg_b, arg_str, out, err, ordering, equal, text, DivLocals, Scratch, iters>>

\* let mut temp = a: a receiver on which inc() and dec() are then called
LetMut ==
    /\ pc = "idle"
    /\ \E a \in Numbers :
        /\ arg_a' = a
        /\ receiver' = a
    /\ op' = "inc_dec"
    /\ pc' = "counting"
    /\ n_inc' = 0
    /\ n_dec' = 0
    /\ UNCHANGED <<arg_b, arg_str, arg_k, out, err, ordering, equal, text, DivLocals,
                   i32_a, i32_b, t_l, t_r, t_c, sum, iters>>

\* temp.inc()
Inc ==
    /\ pc = "counting"
    /\ n_inc + n_dec < MaxCalls
    /\ receiver' = inc(receiver)
    /\ n_inc' = n_inc + 1
    /\ UNCHANGED <<op, pc, arg_a, arg_b, arg_str, arg_k, out, err, ordering, equal, text,
                   DivLocals, n_dec, i32_a, i32_b, t_l, t_r, t_c, sum, iters>>

\* temp.dec()
Dec ==
    /\ pc = "counting"
    /\ n_inc + n_dec < MaxCalls
    /\ receiver' = dec(receiver)
    /\ n_dec' = n_dec + 1
    /\ UNCHANGED <<op, pc, arg_a, arg_b, arg_str, arg_k, out, err, ordering, equal, text,
                   DivLocals, n_inc, i32_a, i32_b, t_l, t_r, t_c, sum, iters>>

\* i32::from(a), i32::from(b)
ToI32 ==
    /\ pc = "idle"
    /\ \E a \in Numbers, b \in Numbers :
        /\ arg_a' = a
        /\ arg_b' = b
        /\ i32_a' = to_i32(a)
        /\ i32_b' = to_i32(b)
    /\ op' = "to_i32"
    /\ pc' = "done"
    /\ UNCHANGED <<arg_str, arg_k, out, err, receiver, ordering, equal, text, DivLocals,
                   n_inc, n_dec, t_l, t_r, t_c, sum, iters>>

\* l.add(&r)
TritAdd ==
    /\ pc = "idle"
    /\ \E l \in Trit, r \in Trit :
        /\ t_l' = l
        /\ t_r' = r
        /\ sum' = Trit_add(l, r)
    /\ op' = "trit_add"
    /\ pc' = "done"
    /\ UNCHANGED <<arg_a, arg_b, arg_str, arg_k, out, err, receiver, ordering, equal, text,
                   DivLocals, n_inc, n_dec, i32_a, i32_b, t_c, iters>>

\* l.add_with_carry(&r, &c)
TritAddWithCarry ==
    /\ pc = "idle"
    /\ \E l \in Trit, r \in Trit, c \in Trit :
        /\ t_l' = l
        /\ t_r' = r
        /\ t_c' = c
        /\ sum' = Trit_add_with_carry(l, r, c)
    /\ op' = "trit_add_with_carry"
    /\ pc' = "done"
    /\ UNCHANGED <<arg_a, arg_b, arg_str, arg_k, out, err, receiver, ordering, equal, text,
                   DivLocals, n_inc, n_dec, i32_a, i32_b, iters>>

Next ==
    \/ FromStr
    \/ Display
    \/ Compare
    \/ Neg
    \/ Shl
    \/ Add
    \/ Mul
    \/ DivCall
    \/ DivAssignCall
    \/ DivLoopStep
    \/ DivReturn
    \/ Sub
    \/ AddAssign
    \/ SubAssign
    \/ MulAssign
    \/ ShlAssign
    \/ LetMut
    \/ Inc
    \/ Dec
    \/ ToI32
    \/ TritAdd
    \/ TritAddWithCarry

Spec == Init /\ [][Next]_vars

TypeOK ==
    /\ pc \in {"idle", "div_loop", "counting", "done", "shown", "panicked"}
    /\ err \in {"none", "InvalidDigit", "DivisionByZero"}
    /\ arg_a \in Numbers /\ arg_b \in Numbers /\ receiver \in Numbers
    /\ out = <<>> \/ out \in Numbers

(***************************************************************************)
(* Properties                                                              *)
(***************************************************************************)
\* Largest value of width N: (3^N - 1) / 2.
MaxValue == (pow3(N) - 1) \div 2

\* The value congruent to v modulo 3^N in [-MaxValue, MaxValue].
WrapBalanced(v) == ((v + MaxValue) % pow3(N)) - MaxValue

Abs(v) == IF v < 0 THEN -v ELSE v

\* Integer quotient truncated toward zero.
TruncQuot(x, y) ==
    IF (x < 0) # (y < 0) THEN -(Abs(x) \div Abs(y)) ELSE Abs(x) \div Abs(y)

AllValid(encoded) == \A i \in 1..Len(encoded) : encoded[i] \in ValidChars

Returned == pc \in {"done", "shown"}

\* C1: a + b returns, without error, the Number whose integer value is
\* int(a) + int(b) wrapped modulo 3^N into [-(3^N-1)/2, (3^N-1)/2]; it is the
\* exact sum whenever the sum is in range.
C1_AddWraps ==
    op = "add" =>
        /\ Returned /\ err = "none" /\ out \in Numbers
        /\ to_i32(out) = WrapBalanced(to_i32(arg_a) + to_i32(arg_b))
        /\ Abs(to_i32(arg_a) + to_i32(arg_b)) <= MaxValue
             => to_i32(out) = to_i32(arg_a) + to_i32(arg_b)

\* C1 witness: an addition whose carry out of the most-significant digit was
\* dropped.
C1_Witness ==
    /\ op = "add"
    /\ to_i32(arg_a) + to_i32(arg_b) > MaxValue
    /\ to_i32(out) = to_i32(arg_a) + to_i32(arg_b) - pow3(N)

\* C2: a * b returns, without error, int(a) * int(b) when the product fits in
\* width N and the product wrapped modulo 3^N into the balanced range otherwise.
C2_MulWraps ==
    op = "mul" =>
        /\ Returned /\ err = "none" /\ out \in Numbers
        /\ to_i32(out) = WrapBalanced(to_i32(arg_a) * to_i32(arg_b))
        /\ Abs(to_i32(arg_a) * to_i32(arg_b)) <= MaxValue
             => to_i32(out) = to_i32(arg_a) * to_i32(arg_b)

\* C2 witness: a product that does not fit, with a Neg and a Pos digit in the
\* left operand.
C2_Witness ==
    /\ op = "mul"
    /\ Abs(to_i32(arg_a) * to_i32(arg_b)) > MaxValue
    /\ \E i \in 1..N : arg_a[i] = "Neg"
    /\ \E i \in 1..N : arg_a[i] = "Pos"
    /\ out # ZERO

\* C3: for a non-zero divisor b, a / b is the quotient of int(a) by int(b)
\* truncated toward zero; (-a) / b = -(a / b) = a / (-b), (-a) / (-b) = a / b
\* and Zero / b = Zero.
C3_DivTruncates ==
    (op = "div" /\ Returned) =>
        /\ arg_b # ZERO
        /\ to_i32(out) = TruncQuot(to_i32(arg_a), to_i32(arg_b))
        /\ div(neg(arg_a), arg_b) = neg(out)
        /\ div(arg_a, neg(arg_b)) = neg(out)
        /\ div(neg(arg_a), neg(arg_b)) = out
        /\ arg_a = ZERO => out = ZERO

\* C3 witness: a negative numerator divided by a positive divisor with a
\* remainder left over and a non-zero quotient.
C3_Witness ==
    /\ op = "div" /\ pc = "done"
    /\ to_i32(arg_a) < 0 /\ to_i32(arg_b) > 1
    /\ abs_remainder # ZERO
    /\ to_i32(out) < 0

\* C4: dividing by the Zero Number through / or /= always panics with
\* DivisionByZero at the zero check: no value is returned, the loop is never
\* entered, and the receiver of /= keeps its value.
C4_DivByZeroFatal ==
    /\ (op \in {"div", "div_assign"} /\ arg_b = ZERO) =>
          /\ pc = "panicked" /\ err = "DivisionByZero"
          /\ out = <<>>
          /\ quotient = ZERO /\ abs_remainder = ZERO
          /\ op = "div_assign" => receiver = arg_a
    /\ err = "DivisionByZero" => arg_b = ZERO

\* C4 witness: a non-zero receiver divided in place by Zero.
C4_Witness ==
    /\ op = "div_assign" /\ arg_b = ZERO /\ arg_a # ZERO
    /\ err = "DivisionByZero" /\ receiver = arg_a

\* C5: decoding a string that contains a character outside {+,0,-}, at any
\* position and for any length, fails with InvalidDigit and produces no Number.
C5_InvalidDigitAlways ==
    (op = "from" /\ ~AllValid(arg_str)) => (err = "InvalidDigit" /\ out = <<>>)

\* C6: decoding L valid symbols puts the right-most symbol at the
\* least-significant digit: digit N-j is symbol L-j for j < min(L, N), the
\* remaining high-order digits are Zero, symbols beyond N are dropped without
\* error, and the empty string gives Zero.
C6_DecodePlacement ==
    (op = "from" /\ AllValid(arg_str)) =>
        LET L == Len(arg_str)
        IN  /\ Returned /\ err = "none" /\ out \in Numbers
            /\ \A i \in 1..N :
                 out[i] = IF i > N - L THEN Trit_from(arg_str[L - (N - i)]) ELSE "Zero"
            /\ L = 0 => out = ZERO

\* C6 witness: a string longer than N whose dropped left-most symbol is '+' and
\* whose right-most symbol landed in the least-significant digit.
C6_Witness ==
    /\ op = "from" /\ err = "none"
    /\ Len(arg_str) > N
    /\ arg_str[1] = "+" /\ arg_str[Len(arg_str)] = "-"
    /\ out[N] = "Neg"

\* C7 (as stated): decoding exactly N valid symbols and re-encoding yields the
\* original string.
C7_RoundTripExact ==
    (op = "from" /\ pc = "shown" /\ Len(arg_str) = N /\ AllValid(arg_str)) =>
        text = arg_str

\* C7 (amended): decoding exactly N valid symbols and re-encoding yields the
\* original string followed by a space and the integer value in parentheses.
C7_RoundTripDigits ==
    (op = "from" /\ pc = "shown" /\ Len(arg_str) = N /\ AllValid(arg_str)) =>
        /\ SubSeq(text, 1, N) = arg_str
        /\ text = arg_str \o <<" ", "(">> \o Decimal(to_i32(out)) \o <<")">>

\* C7 witness: a displayed decode of N symbols with both '+' and '-'.
C7_Witness ==
    /\ op = "from" /\ pc = "shown" /\ Len(arg_str) = N
    /\ AllValid(arg_str)
    /\ \E i \in 1..N : arg_str[i] = "+"
    /\ \E i \in 1..N : arg_str[i] = "-"

\* C8: a < b under the derived comparison iff int(a) < int(b), and a == b iff
\* int(a) = int(b).
C8_OrderingConsistent ==
    op = "cmp" =>
        /\ (ordering = "Less") <=> (to_i32(arg_a) < to_i32(arg_b))
        /\ (ordering = "Greater") <=> (to_i32(arg_a) > to_i32(arg_b))
        /\ equal <=> (to_i32(arg_a) = to_i32(arg_b))
        /\ equal <=> (ordering = "Equal")

\* C8 witness: a < b decided below the most-significant digit, with a Neg
\* digit against a Zero digit.
C8_Witness ==
    /\ op = "cmp" /\ ordering = "Less"
    /\ arg_a[1] = arg_b[1]
    /\ \E i \in 2..N : arg_a[i] = "Neg" /\ arg_b[i] = "Zero"

\* C9: v << k is Zero when k >= N; when k < N its digits [0..N-k) are the
\* digits [k..N) of v and its k least-significant digits are Zero, so
\* int(v << k) = int(v) * 3^k when the k most-significant digits of v are Zero.
C9_ShlDigits ==
    op = "shl" =>
        /\ Returned /\ err = "none" /\ out \in Numbers
        /\ arg_k >= N => out = ZERO
        /\ arg_k < N =>
             /\ \A i \in 1..(N - arg_k) : out[i] = arg_a[i + arg_k]
             /\ \A i \in (N - arg_k + 1)..N : out[i] = "Zero"
             /\ (\A i \in 1..arg_k : arg_a[i] = "Zero")
                  => to_i32(out) = to_i32(arg_a) * pow3(arg_k)

\* C9 witness: a non-zero value shifted by 0 < k < N without losing a digit.
C9_Witness ==
    /\ op = "shl" /\ arg_k > 0 /\ arg_k < N
    /\ \A i \in 1..arg_k : arg_a[i] = "Zero"
    /\ arg_a # ZERO
    /\ to_i32(out) = to_i32(arg_a) * pow3(arg_k)

\* C10: negation never fails, negate(negate(v)) = v, negate(Zero) = Zero and
\* int(-v) = -int(v) for every v.
C10_NegInvolution ==
    op = "neg" =>
        /\ Returned /\ err = "none" /\ out \in Numbers
        /\ neg(out) = arg_a
        /\ to_i32(out) = -to_i32(arg_a)
        /\ arg_a = ZERO => out = ZERO

\* C10 witness: the most-positive value negated to the most-negative one.
C10_Witness ==
    /\ op = "neg"
    /\ to_i32(arg_a) = MaxValue
    /\ to_i32(out) = -MaxValue

AllPos == [i \in 1..N |-> "Pos"]

AllNeg == [i \in 1..N |-> "Neg"]

\* C11: v + Zero = v, Zero + v = v and v + negate(v) = Zero for every v, the
\* most-positive and most-negative values included; hence v - v = Zero.
C11_AdditiveIdentityInverse ==
    /\ (op = "add" /\ arg_b = ZERO) => out = arg_a
    /\ (op = "add" /\ arg_a = ZERO) => out = arg_b
    /\ (op = "add" /\ arg_b = neg(arg_a)) => out = ZERO
    /\ (op = "sub" /\ arg_b = arg_a) => out = ZERO

\* C11 witness: the most-positive value subtracted from itself.
C11_Witness ==
    /\ op = "sub" /\ arg_a = AllPos /\ arg_b = AllPos
    /\ out = ZERO

\* C12: after any sequence of inc() and dec() calls on a receiver that held v
\* the value is int(v) + (#inc - #dec) wrapped modulo 3^N into the balanced
\* range; inc() on all-Pos gives all-Neg, dec() on all-Neg gives all-Pos, and
\* inc() followed by dec() restores the value.
C12_IncDecWraps ==
    op = "inc_dec" =>
        /\ err = "none" /\ receiver \in Numbers
        /\ to_i32(receiver) = WrapBalanced(to_i32(arg_a) + n_inc - n_dec)
        /\ receiver = AllPos => inc(receiver) = AllNeg
        /\ receiver = AllNeg => dec(receiver) = AllPos
        /\ dec(inc(receiver)) = receiver

\* C12 witness: one inc() on the most-positive value wrapped to the
\* most-negative one.
C12_Witness ==
    /\ op = "inc_dec" /\ arg_a = AllPos
    /\ n_inc = 1 /\ n_dec = 0
    /\ receiver = AllNeg

\* C13: for a non-zero divisor the loop of a / b runs exactly
\* floor(|int(a)| / |int(b)|) iterations; while it runs the remainder is
\* |int(a)| minus the iterations times |int(b)| and stays in [0, |int(a)|], and
\* the quotient equals the iteration count and stays in [0, |int(a)|], so
\* neither the subtraction nor the increment wraps.
C13_DivLoopBounded ==
    (op \in {"div", "div_assign"} /\ pc # "panicked") =>
        LET A == Abs(to_i32(arg_a))
            D == Abs(to_i32(arg_b))
        IN  /\ D > 0
            /\ iters <= A \div D
            /\ to_i32(abs_remainder) = A - iters * D
            /\ to_i32(abs_remainder) >= 0 /\ to_i32(abs_remainder) <= A
            /\ to_i32(quotient) = iters
            /\ to_i32(quotient) >= 0 /\ to_i32(quotient) <= A
            /\ (pc = "div_loop" /\ ~div_cond(abs_remainder, abs_divisor)) => iters = A \div D
            /\ Returned => iters = A \div D

\* C13 witness: the longest loop, the most-negative value divided by one.
C13_Witness ==
    /\ op = "div" /\ pc = "done"
    /\ arg_a = AllNeg /\ to_i32(arg_b) = 1
    /\ iters = MaxValue

\* C14: the conversion to integer is one-to-one from the width-N trit
\* sequences onto [-(3^N-1)/2, (3^N-1)/2]; only the all-Zero sequence has the
\* value 0, and a Neg digit at place p contributes -(3^p).  (Onto: the
\* all-Neg sequence is the least value and the successor of every value below
\* the greatest is the value of some sequence.)
C14_UniqueRepresentation ==
    op = "to_i32" =>
        /\ i32_a >= -MaxValue /\ i32_a <= MaxValue
        /\ (i32_a = i32_b) => (arg_a = arg_b)
        /\ (i32_a = 0) => (arg_a = ZERO)
        /\ \A i \in 1..N :
             arg_a[i] = "Neg" => i32_a = to_i32([arg_a EXCEPT ![i] = "Zero"]) - pow3(N - i)
        /\ arg_a = AllNeg => i32_a = -MaxValue
        /\ (arg_a = arg_b /\ i32_a < MaxValue) =>
             \E v \in Numbers : to_i32(v) = i32_a + 1

\* C14 witness: two different sequences with a Neg digit each, converted to
\* different integers of opposite sign.
C14_Witness ==
    /\ op = "to_i32" /\ arg_a # arg_b
    /\ arg_a[1] = "Neg" /\ arg_b[1] = "Pos" /\ arg_b[N] = "Neg"
    /\ i32_a < 0 /\ i32_b > 0

\* C15: after a += b, a -= b, a *= b and (b non-zero) a /= b the receiver
\* equals the value a + b, a - b, a * b and a / b return on the same operands.
C15_InPlaceAgrees ==
    /\ op = "add_assign" => receiver = add(arg_a, arg_b)
    /\ op = "sub_assign" => receiver = sub(arg_a, arg_b)
    /\ op = "mul_assign" => receiver = mul(arg_a, arg_b)
    /\ (op = "div_assign" /\ Returned) => (receiver = div(arg_a, arg_b) /\ receiver = out)
    /\ op \in {"add_assign", "sub_assign", "mul_assign"} => (err = "none" /\ pc = "done")

\* C15 witness: the most-positive value added in place to itself, every digit
\* carrying and the last carry dropped.
C15_Witness ==
    /\ op = "add_assign" /\ arg_a = AllPos /\ arg_b = AllPos
    /\ to_i32(receiver) = -1

\* v <<= 1 applied n times.
RECURSIVE ShlAssignTimes(_, _)
ShlAssignTimes(v, n) == IF n = 0 THEN v ELSE ShlAssignTimes(shl_assign(v, 1), n - 1)

\* C16: after v <<= k the receiver equals v << k for every v and every k
\* (k = 0, k = N-1 and k >= N included), and <<= 1 applied k times gives the
\* same value as one << k.
C16_ShlAssignAgrees ==
    op = "shl_assign" =>
        /\ err = "none" /\ pc = "done"
        /\ receiver = shl(arg_a, arg_k)
        /\ ShlAssignTimes(arg_a, arg_k) = shl(arg_a, arg_k)

\* C16 witness: an in-place shift by N-1 that lost a Pos digit and moved the
\* least-significant Neg digit to the top.
C16_Witness ==
    /\ op = "shl_assign" /\ arg_k = N - 1
    /\ arg_a[1] = "Pos" /\ arg_a[N] = "Neg"
    /\ receiver[1] = "Neg" /\ receiver[N] = "Zero"

\* The value of a trit: -1, 0 or 1.
TritValue(t) == CASE t = "Neg" -> -1 [] t = "Zero" -> 0 [] t = "Pos" -> 1

\* C17: for each of the 9 pairs Trit::add returns result and carry trits with
\* value(result) + 3 * value(carry) = value(l) + value(r), by the three policy
\* cases; the unreachable!() arm is never taken.
C17_HalfAdder ==
    op = "trit_add" =>
        /\ sum.result \in Trit /\ sum.carry \in Trit
        /\ TritValue(sum.result) + 3 * TritValue(sum.carry) = TritValue(t_l) + TritValue(t_r)
        /\ t_l = "Zero" => sum = [result |-> t_r, carry |-> "Zero"]
        /\ t_r = "Zero" => sum = [result |-> t_l, carry |-> "Zero"]
        /\ (t_l = "Pos" /\ t_r = "Pos") => sum = [result |-> "Neg", carry |-> "Pos"]
        /\ (t_l = "Neg" /\ t_r = "Neg") => sum = [result |-> "Pos", carry |-> "Neg"]
        /\ (TritValue(t_l) = -TritValue(t_r)) => sum = [result |-> "Zero", carry |-> "Zero"]

\* C17 witness: Neg + Neg, which carries.
C17_Witness ==
    /\ op = "trit_add" /\ t_l = "Neg" /\ t_r = "Neg"
    /\ sum.carry = "Neg"

\* C18: for each of the 27 triples Trit::add_with_carry returns result and
\* carry with value(result) + 3 * value(carry) = value(l) + value(r) + value(c):
\* a Zero input reduces to the two-trit add of the other two; otherwise a
\* cancelling pair leaves the third trit with carry Zero; otherwise the three
\* are equal and give Zero with that trit as carry; the order of the arguments
\* does not matter.
C18_FullAdder ==
    op = "trit_add_with_carry" =>
        LET NoZero == t_l # "Zero" /\ t_r # "Zero" /\ t_c # "Zero"
            AllSame == t_l = t_r /\ t_r = t_c
            Total == TritValue(t_l) + TritValue(t_r) + TritValue(t_c)
        IN  /\ sum.result \in Trit /\ sum.carry \in Trit
            /\ TritValue(sum.result) + 3 * TritValue(sum.carry) = Total
            /\ t_l = "Zero" => sum = Trit_add(t_r, t_c)
            /\ t_r = "Zero" => sum = Trit_add(t_l, t_c)
            /\ t_c = "Zero" => sum = Trit_add(t_l, t_r)
            /\ (NoZero /\ ~AllSame) =>
                 /\ sum.carry = "Zero"
                 /\ TritValue(sum.result) = Total
                 /\ sum.result \in {t_l, t_r, t_c}
            /\ (NoZero /\ AllSame) => sum = [result |-> "Zero", carry |-> t_l]
            /\ sum = Trit_add_with_carry(t_l, t_c, t_r)
            /\ sum = Trit_add_with_carry(t_r, t_l, t_c)
            /\ sum = Trit_add_with_carry(t_r, t_c, t_l)
            /\ sum = Trit_add_with_carry(t_c, t_l, t_r)
            /\ sum = Trit_add_with_carry(t_c, t_r, t_l)

\* C18 witness: three Pos trits, the only case with a Pos carry and result Zero.
C18_Witness ==
    /\ op = "trit_add_with_carry"
    /\ t_l = "Pos" /\ t_r = "Pos" /\ t_c = "Pos"
    /\ sum.carry = "Pos" /\ sum.result = "Zero"

====
